---- MODULE Spec2Model ----
(***************************************************************************)
(* Model of dyn_object (src/src/lib.rs): the type-erased nullable handle   *)
(* Object(Option<Box<dyn DynObject>>), the DynObject capability trait and  *)
(* the AsObject conversion trait.                                          *)
(*                                                                         *)
(* A value is a record [ty, tys, val]: ty is the value's own (runtime)     *)
(* type; for a value of a plain type tys = <<>> and val is the payload;    *)
(* for a value of type Object, tys is the chain of runtime types of what   *)
(* is boxed inside it (<<>> = Object(None); <<"i32">> = a boxed i32;       *)
(* <<"Object","i32">> = a boxed Object that boxes an i32) and val is the   *)
(* payload of the innermost value.  Option<T> is <<>> or <<v>>.            *)
(***************************************************************************)
EXTENDS Integers, Sequences, FiniteSets, TLC

\* ---------------------------------------------------------------- bounds
MaxVal == 1

\* ----------------------------------------------------------------- types
ObjectT == "Object"
UnnameableT == "UnnameableUnequal"
PlainTypes == {"i32", "String"}
\* the types a caller can name as the generic parameter T
ReqTypes == PlainTypes \cup {ObjectT}

Plain(T, n) == [ty |-> T, tys |-> <<>>, val |-> n]
PlainVals == {Plain(T, n) : T \in PlainTypes, n \in 0..MaxVal}

\* the value of a call that panicked (Option::unwrap on None)
PANIC == [ty |-> "PANIC", tys |-> <<>>, val |-> 0]
Unwrap(o) == IF o = <<>> THEN PANIC ELSE o[1]

\* Object(None)
NONE == [ty |-> ObjectT, tys |-> <<>>, val |-> 0]
\* Object(Some(Box::new(v)))
ObjectSome(v) == [ty |-> ObjectT, tys |-> <<v.ty>> \o v.tys, val |-> v.val]
\* the boxed value of a non-empty Object, with its runtime type
Inner(h) == [ty |-> Head(h.tys), tys |-> Tail(h.tys), val |-> h.val]

is_some(h) == h.tys # <<>>
is_none(h) == h.tys = <<>>

\* <dyn Any>::downcast_ref::<T> / downcast::<T>: Some iff the runtime type is T
AnyDowncast(v, T) == IF v.ty = T THEN <<v>> ELSE <<>>
\* <dyn DynObject>::downcast_ref / downcast_mut / downcast (impl_downcast!)
downcast_ref(x, T) == AnyDowncast(x, T)

\* --------------------------------------------------------------- cloning
RECURSIVE dyn_clone(_)
\* impl Clone for Box<dyn DynObject>
Box_clone(b) == dyn_clone(b)
\* #[derive(Clone)] on Object: clones the Option<Box<..>>
Object_clone(h) == IF is_none(h) THEN NONE ELSE ObjectSome(Box_clone(Inner(h)))
\* T::clone for the concrete type of v
T_clone(v) == IF v.ty = ObjectT THEN Object_clone(v) ELSE v
dyn_clone(self) == T_clone(self)

\* -------------------------------------------------------------- equality
UnnameableUnequal_eq_derived(a, b) == TRUE
UnnameableUnequal_eq(a, b) == FALSE

RECURSIVE dyn_eq(_, _)
\* impl PartialEq for dyn DynObject
Box_eq(a, b) == dyn_eq(a, b)
\* #[derive(PartialEq)] on Object: Option<Box<..>> equality
Object_eq(a, b) ==
    IF is_none(a) /\ is_none(b) THEN TRUE
    ELSE IF is_some(a) /\ is_some(b) THEN Box_eq(Inner(a), Inner(b))
    ELSE FALSE
\* T's own PartialEq, a == b with both of type T
T_eq(T, a, b) ==
    IF T = ObjectT THEN Object_eq(a, b)
    ELSE IF T = UnnameableT THEN UnnameableUnequal_eq(a, b)
    ELSE a.val = b.val
dyn_eq_noguard(self, other) == T_eq(self.ty, other, self)
dyn_eq(self, other) ==
    LET d == downcast_ref(other, self.ty)
    IN  IF d = <<>> THEN FALSE ELSE T_eq(self.ty, d[1], self)

\* -------------------------------------------------------------- AsObject
cloned_nocheck(T, obj) ==
    IF is_none(obj) THEN <<>>
    ELSE <<[ty |-> T, tys |-> Tail(obj.tys), val |-> obj.val]>>
cloned(T, obj) ==
    IF T = ObjectT
    THEN IF is_none(obj) THEN <<>>
         ELSE <<T_clone(Unwrap(AnyDowncast(obj, T)))>>
    ELSE IF is_none(obj) THEN <<>>
         ELSE LET d == downcast_ref(Inner(obj), T)
              IN  IF d = <<>> THEN <<>> ELSE <<T_clone(d[1])>>

get_ref_noempty(T, obj) ==
    IF T = ObjectT
    THEN <<Unwrap(AnyDowncast(obj, T))>>
    ELSE IF is_none(obj) THEN <<>> ELSE downcast_ref(Inner(obj), T)
get_ref(T, obj) ==
    IF T = ObjectT
    THEN IF is_none(obj) THEN <<>>
         ELSE <<Unwrap(AnyDowncast(obj, T))>>
    ELSE IF is_none(obj) THEN <<>> ELSE downcast_ref(Inner(obj), T)

get_mut(T, obj) ==
    IF T = ObjectT
    THEN IF is_none(obj) THEN <<>>
         ELSE <<Unwrap(AnyDowncast(obj, T))>>
    ELSE IF is_none(obj) THEN <<>> ELSE downcast_ref(Inner(obj), T)

from_object(T, obj) ==
    IF T = ObjectT
    THEN IF is_none(obj) THEN <<>>
         ELSE <<Unwrap(AnyDowncast(obj, T))>>
    ELSE IF is_none(obj) THEN <<>> ELSE downcast_ref(Inner(obj), T)

into_object_box(v) == ObjectSome(v)
into_object(v) ==
    IF v.ty = ObjectT
    THEN Unwrap(AnyDowncast(v, ObjectT))
    ELSE ObjectSome(v)

as_dyn_inner_self(v) == <<v>>
as_dyn_inner(v) ==
    IF v.ty = ObjectT
    THEN LET o == Unwrap(AnyDowncast(v, ObjectT))
         IN  IF is_none(o) THEN <<>> ELSE <<Inner(o)>>
    ELSE <<v>>

\* ---------------------------------------------------------------- Object
unnameable == ObjectSome([ty |-> UnnameableT, tys |-> <<>>, val |-> 0])
Object_new(v) == into_object(v)

\* methods taking &mut self return the new handle next to the result
take_keep(T, self) ==
    LET r == from_object(T, self)
    IN  [obj |-> IF r = <<>> THEN self ELSE NONE, ret |-> r]
take(T, self) == [obj |-> NONE, ret |-> from_object(T, self)]

set_box(self, v) == ObjectSome(v)
set(self, v) == into_object(v)

replace_setfirst(B, self, v) ==
    LET t == take(B, set(self, v))
    IN  [obj |-> t.obj, ret |-> t.ret]
replace(B, self, v) ==
    LET original == take(B, self)
    IN  [obj |-> set(original.obj, v), ret |-> original.ret]

or(self, item) == IF is_none(self) THEN Object_new(item) ELSE self

\* calls counts the invocations of the producer `item`
or_else_eager(self, item) ==
    IF is_none(self) THEN [obj |-> Object_new(item), calls |-> 1]
    ELSE [obj |-> self, calls |-> 1]
or_else(self, item) ==
    IF is_none(self) THEN [obj |-> Object_new(item), calls |-> 1]
    ELSE [obj |-> self, calls |-> 0]

equals(self, other) ==
    LET b == as_dyn_inner(other)
    IN  IF is_none(self) /\ b = <<>> THEN TRUE
        ELSE IF is_some(self) /\ b # <<>> THEN dyn_eq(Inner(self), b[1])
        ELSE FALSE

\* ----------------------------------------------------------------- state
VARIABLES obj, other, ret, eqres, calls, last
vars == <<obj, other, ret, eqres, calls, last>>

\* values a caller can pass: plain values and handles it owns
Args == PlainVals \cup {NONE, Object_clone(other), Object_clone(obj)}

Last(op, T, arg) == [op |-> op, T |-> T, arg |-> arg, pre |-> obj]

Init ==
    /\ obj = NONE
    /\ other = NONE
    /\ ret = <<>>
    /\ eqres = FALSE
    /\ calls = 0
    /\ last = [op |-> "NONE", T |-> "-", arg |-> NONE, pre |-> NONE]

ConstNONE ==
    /\ obj' = NONE
    /\ last' = Last("NONE", "-", NONE)
    /\ UNCHANGED <<other, ret, eqres, calls>>

Unnameable ==
    /\ obj' = unnameable
    /\ last' = Last("unnameable", "-", NONE)
    /\ UNCHANGED <<other, ret, eqres, calls>>

New(x) ==
    /\ obj' = Object_new(x)
    /\ last' = Last("new", x.ty, x)
    /\ UNCHANGED <<other, ret, eqres, calls>>

Cloned(T) ==
    /\ ret' = cloned(T, obj)
    /\ last' = Last("cloned", T, NONE)
    /\ UNCHANGED <<obj, other, eqres, calls>>

GetRef(T) ==
    /\ ret' = get_ref(T, obj)
    /\ last' = Last("get_ref", T, NONE)
    /\ UNCHANGED <<obj, other, eqres, calls>>

GetMut(T) ==
    /\ ret' = get_mut(T, obj)
    /\ last' = Last("get_mut", T, NONE)
    /\ UNCHANGED <<obj, other, eqres, calls>>

Clear ==
    /\ obj' = NONE
    /\ last' = Last("clear", "-", NONE)
    /\ UNCHANGED <<other, ret, eqres, calls>>

Take(T) ==
    /\ obj' = take(T, obj).obj
    /\ ret' = take(T, obj).ret
    /\ last' = Last("take", T, NONE)
    /\ UNCHANGED <<other, eqres, calls>>

Set(x) ==
    /\ obj' = set(obj, x)
    /\ last' = Last("set", x.ty, x)
    /\ UNCHANGED <<other, ret, eqres, calls>>

Replace(x, B) ==
    /\ obj' = replace(B, obj, x).obj
    /\ ret' = replace(B, obj, x).ret
    /\ last' = Last("replace", B, x)
    /\ UNCHANGED <<other, eqres, calls>>

Or(x) ==
    /\ obj' = or(obj, x)
    /\ last' = Last("or", x.ty, x)
    /\ UNCHANGED <<other, ret, eqres, calls>>

OrElse(x) ==
    /\ obj' = or_else(obj, x).obj
    /\ calls' = or_else(obj, x).calls
    /\ last' = Last("or_else", x.ty, x)
    /\ UNCHANGED <<other, ret, eqres>>

Equals(x) ==
    /\ eqres' = equals(obj, x)
    /\ last' = Last("equals", x.ty, x)
    /\ UNCHANGED <<obj, other, ret, calls>>

\* obj == other
Eq ==
    /\ eqres' = Object_eq(obj, other)
    /\ last' = Last("eq", "-", other)
    /\ UNCHANGED <<obj, other, ret, calls>>

\* other = obj.clone()
Clone ==
    /\ other' = Object_clone(obj)
    /\ last' = Last("clone", "-", NONE)
    /\ UNCHANGED <<obj, ret, eqres, calls>>

Next ==
    \/ ConstNONE
    \/ Unnameable
    \/ \E x \in Args : New(x)
    \/ \E T \in ReqTypes : Cloned(T)
    \/ \E T \in ReqTypes : GetRef(T)
    \/ \E T \in ReqTypes : GetMut(T)
    \/ Clear
    \/ \E T \in ReqTypes : Take(T)
    \/ \E x \in Args : Set(x)
    \/ \E x \in Args, B \in ReqTypes : Replace(x, B)
    \/ \E x \in Args : Or(x)
    \/ \E x \in Args : OrElse(x)
    \/ \E x \in Args : Equals(x)
    \/ Eq
    \/ Clone

Spec == Init /\ [][Next]_vars

\* ------------------------------------------------------------ properties
\* what a handle holds when it was built from x without nesting
Wrapped(x) ==
    IF x.ty = ObjectT THEN x
    ELSE [ty |-> ObjectT, tys |-> <<x.ty>>, val |-> x.val]
\* the runtime type of the value stored directly in a non-empty handle
StoredType(h) == Head(h.tys)
Holds(h, T) == h.tys # <<>> /\ Head(h.tys) = T
HoldsUnnameable(h) == Holds(h, UnnameableT)
\* the result of moving a T out of the handle pre
ExpectTaken(T, pre) ==
    IF T = ObjectT
    THEN IF pre.tys = <<>> THEN <<>> ELSE <<pre>>
    ELSE IF Holds(pre, T) THEN <<Plain(T, pre.val)>> ELSE <<>>
\* the values x with wrap(x) = h
Sources(h) == {x \in PlainVals \cup {h} : Object_new(x) = h}

\* C1: take::<T>() always leaves the handle empty; it returns Some(v) only
\* when the handle held v of runtime type exactly T (or T is the handle type
\* and the handle was non-empty: Some(previous handle)); on a type mismatch
\* it returns absent and the stored value is lost.
C1_TakeDestructive ==
    last.op = "take" =>
        /\ obj = NONE
        /\ ret = ExpectTaken(last.T, last.pre)
        /\ (is_some(last.pre) /\ last.T # ObjectT /\ StoredType(last.pre) # last.T
               => ret = <<>> /\ obj # last.pre)

C1_Witness ==
    /\ last.op = "take"
    /\ last.T = "String"
    /\ last.pre = ObjectSome(Plain("i32", 1))
    /\ ret = <<>>
    /\ obj = NONE

\* C2 (as stated): for every x, handles included, wrap(wrap(x)) == wrap(x)
\* under the handle's equality.
C2_FlattenEq_Original ==
    last.op = "new" => Object_eq(Object_new(obj), obj)

\* C2 (amended): wrap(wrap(x)) is the same handle as wrap(x) (same emptiness,
\* stored runtime type and stored value), and wrap(wrap(x)) == wrap(x) holds
\* exactly when wrap(x) does not hold the unnameable sentinel.
C2_Flatten ==
    last.op = "new" =>
        /\ Object_new(obj) = obj
        /\ obj = Wrapped(last.arg)
        /\ (Object_eq(Object_new(obj), obj) <=> ~HoldsUnnameable(obj))

C2_Witness ==
    /\ last.op = "new"
    /\ last.arg.ty = ObjectT
    /\ Holds(last.arg, "i32")
    /\ obj = last.arg
    /\ Object_eq(Object_new(obj), obj)

\* C3 (as stated): for every x, cloned::<T>() on wrap(x) is present and
\* equal to x when T is x's exact type (the handle type when x is a handle),
\* and absent for every other T.
C3_RoundTrip_Original ==
    last.op = "cloned" =>
        \A x \in Sources(obj) :
            IF last.T = x.ty
            THEN ret # <<>> /\ T_eq(last.T, ret[1], x)
            ELSE ret = <<>>

\* C3 (amended): for a non-handle x of type T, cloned::<T>() on wrap(x) is
\* Some(x) and cloned::<U>() is absent for every non-handle U other than T;
\* cloned::<Object>() on wrap(x) is present exactly when wrap(x) is non-empty
\* and is then a handle with the contents of wrap(x), == to it unless it
\* holds the unnameable sentinel; for a handle x and a non-handle U,
\* cloned::<U>() is present exactly when x holds a value of type U, and is
\* then that value.
C3_RoundTrip ==
    last.op = "cloned" =>
        \A x \in Sources(obj) :
            IF last.T = ObjectT
            THEN /\ ret = (IF is_none(Wrapped(x)) THEN <<>> ELSE <<Wrapped(x)>>)
                 /\ (ret # <<>> =>
                        (Object_eq(ret[1], Wrapped(x)) <=> ~HoldsUnnameable(ret[1])))
            ELSE IF x.ty # ObjectT
                 THEN ret = (IF last.T = x.ty THEN <<x>> ELSE <<>>)
                 ELSE ret = (IF Holds(x, last.T)
                             THEN <<Plain(last.T, x.val)>> ELSE <<>>)

C3_Witness ==
    /\ last.op = "cloned"
    /\ last.T = "i32"
    /\ Plain("i32", 1) \in Sources(obj)
    /\ ret = <<Plain("i32", 1)>>

\* C4: two handles are == iff both are empty, or both are non-empty and
\* their stored runtime types are the same and the stored values are equal
\* by that type's own equality; a == b gives the same result as b == a.
C4_EqTypeGuarded ==
    last.op = "eq" =>
        /\ eqres <=>
              \/ is_none(obj) /\ is_none(other)
              \/ /\ is_some(obj) /\ is_some(other)
                 /\ StoredType(obj) = StoredType(other)
                 /\ StoredType(obj) # UnnameableT
                 /\ obj.val = other.val
        /\ Object_eq(other, obj) = eqres

C4_Witness ==
    /\ last.op = "eq"
    /\ Holds(obj, "i32")
    /\ Holds(other, "String")
    /\ obj.val = other.val
    /\ eqres = FALSE

\* C5: a handle returned by unnameable() is non-empty and is never equal to
\* any handle (another unnameable handle, a clone of itself, itself, the
\* empty handle, a handle holding any other value), on either side of == and
\* for equals().
C5_UnnameableUnequal ==
    /\ last.op = "unnameable" =>
          /\ is_some(obj)
          /\ \A h \in {obj, Object_clone(obj), other, NONE, unnameable}
                        \cup {Object_new(v) : v \in PlainVals} :
                /\ ~Object_eq(obj, h)
                /\ ~Object_eq(h, obj)
                /\ ~equals(obj, h)
                /\ ~equals(h, obj)
          /\ \A v \in PlainVals : ~equals(obj, v)
    /\ last.op = "eq" /\ (HoldsUnnameable(obj) \/ HoldsUnnameable(other))
          => ~eqres
    /\ last.op = "equals" /\ (HoldsUnnameable(obj) \/ HoldsUnnameable(last.arg))
          => ~eqres

C5_Witness ==
    /\ last.op = "eq"
    /\ HoldsUnnameable(obj)
    /\ other = Object_clone(obj)
    /\ eqres = FALSE

\* C6: cloned, get_ref, get_mut and take never panic; for T other than the
\* handle type they return absent exactly when the handle is empty or the
\* stored runtime type is not T, and for T = the handle type exactly when
\* the handle is empty.
C6_AbsenceOnly ==
    last.op \in {"cloned", "get_ref", "get_mut", "take"} =>
        /\ ret # <<PANIC>>
        /\ ret = <<>> <=>
              IF last.T = ObjectT
              THEN is_none(last.pre)
              ELSE is_none(last.pre) \/ StoredType(last.pre) # last.T

C6_Witness ==
    /\ last.op = "get_ref"
    /\ last.T = ObjectT
    /\ is_none(last.pre)
    /\ ret = <<>>

\* C7: replace::<A, B>(v) leaves the handle holding wrap(v) whatever the
\* previous contents were, and returns Some(old) exactly when the previous
\* contents had runtime type B (or B is the handle type and the handle was
\* non-empty); otherwise it returns absent and the old contents are lost.
C7_ReplaceTakeThenSet ==
    last.op = "replace" =>
        /\ obj = Wrapped(last.arg)
        /\ ret = ExpectTaken(last.T, last.pre)

C7_Witness ==
    /\ last.op = "replace"
    /\ last.T = "String"
    /\ Holds(last.pre, "i32")
    /\ last.arg.ty = "String"
    /\ ret = <<>>
    /\ obj = ObjectSome(last.arg)

\* C8: or_else invokes its producer exactly once on an empty handle and the
\* result is wrap(producer()); on a non-empty handle the producer is never
\* invoked and the handle is returned unchanged; or(item) gives the same
\* result.
C8_OrElseLazy ==
    last.op = "or_else" =>
        /\ is_none(last.pre) => calls = 1 /\ obj = Wrapped(last.arg)
        /\ is_some(last.pre) => calls = 0 /\ obj = last.pre
        /\ obj = or(last.pre, last.arg)

C8_Witness ==
    /\ last.op = "or_else"
    /\ is_some(last.pre)
    /\ last.arg.ty = "i32"
    /\ calls = 0
    /\ obj = last.pre

\* C9: a.equals(&other) is the same boolean as a == wrap(other): for a
\* handle other it is a == other, for an ordinary value of type T it is true
\* iff a holds a value of runtime type T equal to other.
C9_EqualsContents ==
    last.op = "equals" =>
        /\ eqres = Object_eq(obj, Wrapped(last.arg))
        /\ last.arg.ty = ObjectT => eqres = Object_eq(obj, last.arg)
        /\ last.arg.ty # ObjectT =>
              (eqres <=> Holds(obj, last.arg.ty) /\ obj.val = last.arg.val)

C9_Witness ==
    /\ last.op = "equals"
    /\ last.arg.ty = ObjectT
    /\ Holds(last.arg, "String")
    /\ eqres = TRUE

\* C10: in every reachable state no handle stores a value whose runtime
\* type is the handle type; a handle passed to new, set, replace or or is
\* stored as its own contents (an empty one leaves the target empty).
C10_NoNesting ==
    /\ \A h \in {obj, other} \cup {ret[i] : i \in DOMAIN ret} :
          \A i \in DOMAIN h.tys : h.tys[i] # ObjectT
    /\ last.op \in {"new", "set", "replace"} /\ last.arg.ty = ObjectT
          => obj = last.arg
    /\ last.op = "or" /\ last.arg.ty = ObjectT /\ is_none(last.pre)
          => obj = last.arg

C10_Witness ==
    /\ last.op = "set"
    /\ is_some(last.pre)
    /\ last.arg = NONE
    /\ obj = NONE

====
